---- MODULE Spec2Model ----
(***************************************************************************)
(* Model of the internal Paystack webhook handler,                         *)
(* src/app/api/webhooks/internal/paystack/route.ts (function POST).        *)
(*                                                                         *)
(* Every invocation of POST is a request.  A request runs from one await   *)
(* on a collaborator (Order.findOne, order.save, sendNotificationToUser,   *)
(* Cart.findOne, userCart.save) to the next in one atomic step; requests   *)
(* of different invocations interleave at those awaits.  The Order and     *)
(* Cart collections are shared by all requests; the documents a request    *)
(* has read are private copies that it mutates and writes back with save.  *)
(* connectDB touches neither collection, so it is taken in one step with   *)
(* the code before it.  Any collaborator call may throw.                   *)
(*                                                                         *)
(* Spec lets the requests overlap; SpecSeq receives a request only when    *)
(* none is being handled, and starts from any prior order and any body.    *)
(***************************************************************************)
EXTENDS Integers, Sequences, FiniteSets, TLC

\* ------------------------------------------------------------------ bounds
MaxTimeline == 2    \* longest timeline of the stored order before any request
MaxRequests == 2    \* requests received in one behaviour, all of which may overlap
MaxFailures == 1    \* collaborator calls that throw in one behaviour

\* --------------------------------------------------------------- the data
Slots == 1..MaxRequests

Secret      == "s3cret"        \* the value of AVENUE_FASHION_INTERNAL_SECRET
WrongSecret == "gu3ss"         \* a key the relay does not hold
Secrets     == {"", Secret}    \* "" : the variable is not configured

Users == {"U1", "U2"}
StoredOrderId  == "ORD1"       \* the order the store holds, of user U1
UnknownOrderId == "ORD9"       \* an id no stored order has
Undefined == "<undefined>"     \* a property the JSON object does not have
References == {"TXN1", "TXN2"}
NoTransaction == ""            \* payment.transactionId not set yet

\* A raw request body.  valid = FALSE is text that is not JSON.  hasData and
\* hasMetadata tell whether event.data and event.data.metadata exist.
Body(valid, kind, hasData, status, reference, hasMetadata, orderId) ==
  [valid |-> valid, event |-> kind, hasData |-> hasData, status |-> status,
   reference |-> reference, hasMetadata |-> hasMetadata, orderId |-> orderId]

BadJson      == Body(FALSE, Undefined, FALSE, Undefined, Undefined, FALSE, Undefined)
OtherKind    == Body(TRUE, "charge.failed", FALSE, Undefined, Undefined, FALSE, Undefined)
OtherKindFull == Body(TRUE, "transfer.success", TRUE, "success", "TXN1", TRUE, StoredOrderId)
NoData       == Body(TRUE, "charge.success", FALSE, Undefined, Undefined, FALSE, Undefined)
NotSuccess   == Body(TRUE, "charge.success", TRUE, "failed", "TXN1", TRUE, StoredOrderId)
NoStatus     == Body(TRUE, "charge.success", TRUE, Undefined, "TXN1", TRUE, StoredOrderId)
NoMetadata   == Body(TRUE, "charge.success", TRUE, "success", "TXN1", FALSE, Undefined)
NoOrderId    == Body(TRUE, "charge.success", TRUE, "success", "TXN1", TRUE, Undefined)
EmptyOrderId == Body(TRUE, "charge.success", TRUE, "success", "TXN1", TRUE, "")
Paid(reference, orderId) ==
  Body(TRUE, "charge.success", TRUE, "success", reference, TRUE, orderId)

Bodies ==
  {BadJson, OtherKind, OtherKindFull, NoData, NotSuccess, NoStatus, NoMetadata,
   NoOrderId, EmptyOrderId, Paid("TXN1", UnknownOrderId)}
  \cup {Paid(ref, StoredOrderId) : ref \in References}

\* crypto.createHmac('sha256', key).update(body).digest('hex'): an ideal MAC,
\* a value that determines both the key and the message.
HmacSha256(key, body) == [key |-> key, msg |-> body]

\* headersList.get('x-internal-signature'): null when the header is absent.
NoSignature == [absent |-> TRUE]

\* The signature headers a sender may put on a body: none, the right one, one
\* made with another key, and the right signature of another body.
SignatureHeaders(secret, body) ==
  {NoSignature, HmacSha256(secret, body), HmacSha256(WrongSecret, body),
   HmacSha256(secret, IF body = BadJson THEN OtherKind ELSE BadJson)}

\* What a sender delivers: a body and the header that comes with it.
Delivery(body, signature) == [body |-> body, signature |-> signature]

Signed(body) == Delivery(body, HmacSha256(Secret, body))

\* Every body under every header.
Deliveries ==
  UNION {{Delivery(body, signature) : signature \in SignatureHeaders(Secret, body)} :
           body \in Bodies}

\* The deliveries whose handling overlaps in time: the relay's signed events
\* for the stored order and for an unknown one, an event that is not a
\* success, and an unsigned copy.
RelayDeliveries ==
  {Signed(Paid(ref, StoredOrderId)) : ref \in References}
  \cup {Signed(Paid("TXN1", UnknownOrderId)), Signed(NotSuccess),
        Delivery(Paid("TXN1", StoredOrderId), NoSignature)}

\* --------------------------------------------------------------- timeline
TimelineEntry(title, description, status, timestamp) ==
  [title |-> title, description |-> description, status |-> status,
   timestamp |-> timestamp]

ProcessingDescription ==
  "We are preparing your items for shipment at the warehouse."

\* The entries a stored order may hold before the handler ever ran.
PriorEntries ==
  {TimelineEntry(t, "prior stage", s, 0) :
     t \in {"Order Confirmed", "Shipped"}, s \in {"completed", "current"}}

SeqsUpTo(S, n) == UNION {[1..k -> S] : k \in 0..n}

PriorTimelines == SeqsUpTo(PriorEntries, MaxTimeline)

DefaultTimeline ==
  <<TimelineEntry("Order Confirmed", "prior stage", "current", 0)>>

Order(paymentStatus, transactionId, status, timeline) ==
  [orderId |-> StoredOrderId, user |-> "U1",
   payment |-> [status |-> paymentStatus, transactionId |-> transactionId],
   status |-> status, timeline |-> timeline]

\* The stored order before any request: unpaid with any delivery status and
\* any prior timeline, or with another payment status and the usual timeline.
TypicalOrder(paymentStatus, transactionId) ==
  Order(paymentStatus, transactionId, "Confirmed", DefaultTimeline)

TypicalOrders ==
  {TypicalOrder("Pending", NoTransaction), TypicalOrder("Failed", NoTransaction),
   TypicalOrder("Completed", "TXN0")}

InitOrders ==
  {Order("Pending", NoTransaction, st, tl) :
     st \in {"Confirmed", "Shipped"}, tl \in PriorTimelines}
  \cup TypicalOrders

NoCart == [absent |-> TRUE]
Cart(user, items) == [user |-> user, items |-> items]

NoDocument == [absent |-> TRUE]
NoRequest  == [absent |-> TRUE]


\* -------------------------------------------------------------- responses
Json(status, body) == [kind |-> "json", status |-> status, body |-> body]
Thrown(error) == [kind |-> "exception", status |-> 0, body |-> error]
Pending == [kind |-> "pending", status |-> 0, body |-> ""]

ConfigError500 == Json(500, "Server configuration error.")
Forbidden403   == Json(403, "Forbidden: Invalid signature.")
MissingId400   == Json(400, "Missing orderId")
NotFound404    == Json(404, "Order not found")
Internal500    == Json(500, "Internal server error while updating order.")
Ok200          == Json(200, "ok")

\* ------------------------------------------- the synchronous parts of POST
\* SignatureMatches with a defect: a request without the header is let through.
SignatureMatchesOrAbsent(secret, body, signature) ==
  signature = NoSignature \/ HmacSha256(secret, body) = signature

\* Line 29: the comparison of the computed with the received signature.
SignatureMatches(secret, body, signature) ==
  HmacSha256(secret, body) = signature

\* Admit with a defect: the nested status is not looked at.
AdmitIgnoringStatus(secret, body, signature) ==
  IF secret = "" THEN ConfigError500
  ELSE IF HmacSha256(secret, body) # signature THEN Forbidden403
  ELSE IF ~body.valid THEN Thrown("SyntaxError")
  ELSE IF body.event # "charge.success" THEN Ok200
  ELSE IF ~body.hasData THEN Thrown("TypeError")
  ELSE Pending

\* Lines 17-40: from the secret check to the entry of the try block.  The
\* result is the response that ends the request there, or Pending when the
\* request goes on to connectDB.  JSON.parse and the destructuring of
\* event.data stand outside the try block: what they throw leaves POST.
Admit(secret, body, signature) ==
  IF secret = "" THEN ConfigError500
  ELSE IF ~SignatureMatches(secret, body, signature) THEN Forbidden403
  ELSE IF ~body.valid THEN Thrown("SyntaxError")
  ELSE IF body.event # "charge.success" THEN Ok200
  ELSE IF ~body.hasData THEN Thrown("TypeError")
  ELSE IF body.status # "success" THEN Ok200
  ELSE Pending

\* Lines 43-48, after connectDB: reading metadata.orderId throws inside the
\* try block when metadata is missing; a falsy orderId is answered 400.
ReadOrderId(body) ==
  IF ~body.hasMetadata THEN Internal500
  ELSE IF body.orderId \in {Undefined, ""} THEN MissingId400
  ELSE Pending

\* AlreadyProcessed with a defect: the status is compared in lower case.
AlreadyProcessedLowercase(order) == order.payment.status = "completed"

\* AlreadyProcessed with a defect: the delivery status is read, not the
\* payment's.
AlreadyProcessedByDelivery(order) == order.status = "Processing"

\* AlreadyProcessed with a defect: whatever is not 'Pending' counts as paid.
AlreadyProcessedNotPending(order) == order.payment.status # "Pending"

\* Line 57: the idempotency guard.
AlreadyProcessed(order) == order.payment.status = "Completed"

\* Lines 68-71: timeline.find returns the first entry titled 'Order
\* Confirmed'; only that entry has its status set.
ConfirmedIndexes(timeline) ==
  {i \in 1..Len(timeline) : timeline[i].title = "Order Confirmed"}

\* MarkConfirmed with a defect: every earlier stage is marked completed.
MarkAllCompleted(timeline) ==
  [i \in DOMAIN timeline |-> [timeline[i] EXCEPT !.status = "completed"]]

MarkConfirmed(timeline) ==
  IF ConfirmedIndexes(timeline) = {} THEN timeline
  ELSE LET i == CHOOSE k \in ConfirmedIndexes(timeline) :
                  \A j \in ConfirmedIndexes(timeline) : k <= j
       IN [timeline EXCEPT ![i].status = "completed"]

\* Lines 74-79: the entry pushed to the timeline.
ProcessingEntry(now) ==
  TimelineEntry("Processing", ProcessingDescription, "current", now)

\* ApplyPayment with a defect: the transaction reference is not recorded.
ApplyPaymentWithoutReference(order, reference, now) ==
  [order EXCEPT !.payment.status = "Completed",
                !.status = "Processing",
                !.timeline = Append(MarkConfirmed(order.timeline),
                                    ProcessingEntry(now))]

\* Lines 63-79: the mutation of the document read by findOne.
ApplyPayment(order, reference, now) ==
  [order EXCEPT !.payment.status = "Completed",
                !.payment.transactionId = reference,
                !.status = "Processing",
                !.timeline = Append(MarkConfirmed(order.timeline),
                                    ProcessingEntry(now))]

\* Line 100: userCart.items = [].
ClearCart(cart) == [cart EXCEPT !.items = <<>>]

\* ------------------------------------------------------------------ state
VARIABLES
  internalSecret,  \* process.env.AVENUE_FASHION_INTERNAL_SECRET ("" : unset)
  orders,          \* the Order collection: orderId -> stored document
  carts,           \* the Cart collection: user -> stored document or NoCart
  inflight,        \* slot -> the request being handled there, or NoRequest
  last,            \* the request that ended in the step just taken, if one did
  notified,        \* user -> notifications delivered to them
  effects,         \* counts of what the requests have done so far
  delivered,       \* the relevant events that have been answered 200
  before,          \* the stores as they were when a request was last received
  received,        \* requests received so far
  clock,           \* the time new Date() reads next; it advances with each reading
  failures         \* collaborator calls that have thrown so far

vars == <<internalSecret, orders, carts, inflight, last, notified, effects,
          delivered, before, received, clock, failures>>

Call(name, ok) == [call |-> name, ok |-> ok]

\* The stores and the notifications sent, as a request finds them.
Snapshot == [orders |-> orders, carts |-> carts, notified |-> notified]

\* A request as it enters POST.  found: the document as Order.findOne
\* returned it; order: that document as the request holds it, mutated or
\* not; transition: what the guard of line 57 decided; redelivery: the same
\* event has already been answered 200.
NewRequest(body, signature) ==
  [body |-> body, signature |-> signature, pc |-> "received",
   found |-> NoDocument, order |-> NoDocument, userCart |-> NoCart, trace |-> <<>>,
   transition |-> "none",
   redelivery |-> body \in delivered, resp |-> Pending]

\* FindOneOrder with a defect: the filter is lost and any order matches.
FindOneOrderWithoutFilter(orderId) == orders[StoredOrderId]

\* Order.findOne({ orderId }): the stored document with that id, or null.
FindOneOrder(orderId) ==
  IF orderId \in DOMAIN orders THEN orders[orderId] ELSE NoDocument

\* FindOneCart with a defect: the filter is lost and another user's cart matches.
FindOneCartWithoutFilter(user) == carts["U2"]

\* Cart.findOne({ user }).
FindOneCart(user) == carts[user]

\* The state before any request, with the stored order one of a given set.
InitWith(storedOrders) ==
  /\ internalSecret \in Secrets
  /\ orders \in [{StoredOrderId} -> storedOrders]
  /\ carts \in {[u \in Users |-> IF u = "U1" THEN c ELSE Cart("U2", <<"shoes">>)] :
                  c \in {NoCart, Cart("U1", <<"shirt", "jeans">>)}}
  /\ internalSecret = "" =>
       /\ orders[StoredOrderId] = TypicalOrder("Pending", NoTransaction)
       /\ carts["U1"] # NoCart
  /\ inflight = [s \in Slots |-> NoRequest]
  /\ last = NoRequest
  /\ notified = [u \in Users |-> 0]
  /\ effects = [passedGuard |-> 0, orderSaves |-> 0, cartSaves |-> 0]
  /\ delivered = {}
  /\ before = Snapshot
  /\ received = 0
  /\ clock = 1
  /\ failures = 0

\* The order as checkout leaves it, in each payment status.
Init == InitWith(TypicalOrders)

\* The order with any prior delivery status and timeline.
InitAny == InitWith(InitOrders)

Idle(s) == inflight[s] = NoRequest
At(s, pc) == ~Idle(s) /\ inflight[s].pc = pc
CanFail == failures < MaxFailures

\* A request ends: it leaves its slot, and last shows it with its response
\* until the next step is taken.
Ended(request, response) == [request EXCEPT !.pc = "done", !.resp = response]

Acknowledged(request, response) ==
  IF response = Ok200 /\ Admit(internalSecret, request.body, request.signature) = Pending
  THEN delivered \cup {request.body} ELSE delivered

Finish(s, request, response) ==
  /\ last' = Ended(request, response)
  /\ inflight' = [inflight EXCEPT ![s] = NoRequest]
  /\ delivered' = Acknowledged(request, response)

\* A request goes on to its next await.
Continue(s, request) ==
  /\ inflight' = [inflight EXCEPT ![s] = request]
  /\ last' = NoRequest
  /\ UNCHANGED delivered

Traced(request, name, ok) ==
  [request EXCEPT !.trace = Append(@, Call(name, ok))]

\* A new request takes the lowest free slot.
Free(s) ==
  /\ received < MaxRequests
  /\ Idle(s)
  /\ \A t \in Slots : t < s => ~Idle(t)

\* Lines 16-48 with connectDB succeeding: up to the await of Order.findOne.
Receive(s, inputs) ==
  /\ Free(s)
  /\ \E input \in inputs :
       LET request  == NewRequest(input.body, input.signature)
           admitted == Admit(internalSecret, input.body, input.signature)
           entered  == Traced(request, "connectDB", TRUE)
       IN  IF admitted # Pending THEN Finish(s, request, admitted)
           ELSE IF ReadOrderId(input.body) # Pending
                THEN Finish(s, entered, ReadOrderId(input.body))
           ELSE Continue(s, [entered EXCEPT !.pc = "findOrder"])
  /\ before' = Snapshot
  /\ received' = received + 1
  /\ UNCHANGED <<internalSecret, orders, carts, notified, effects, clock, failures>>

\* Line 42 throws: the catch of line 107 answers 500.
ConnectFails(s, inputs) ==
  /\ Free(s)
  /\ CanFail
  /\ \E input \in inputs :
       /\ Admit(internalSecret, input.body, input.signature) = Pending
       /\ Finish(s, Traced(NewRequest(input.body, input.signature), "connectDB", FALSE),
                 Internal500)
  /\ failures' = failures + 1
  /\ before' = Snapshot
  /\ received' = received + 1
  /\ UNCHANGED <<internalSecret, orders, carts, notified, effects, clock>>

\* Lines 50-79: the lookup, the guard and the mutation of the document.
FindOrder(s) ==
  /\ At(s, "findOrder")
  /\ LET request == Traced(inflight[s], "Order.findOne", TRUE)
         order   == FindOneOrder(request.body.orderId)
     IN  IF order = NoDocument
         THEN /\ Finish(s, request, NotFound404)
              /\ UNCHANGED <<effects, clock>>
         ELSE IF AlreadyProcessed(order)
         THEN /\ Finish(s, [request EXCEPT !.found = order, !.order = order,
                                           !.transition = "AlreadyApplied"], Ok200)
              /\ UNCHANGED <<effects, clock>>
         ELSE /\ Continue(s, [request EXCEPT
                                !.found = order,
                                !.order = ApplyPayment(order, request.body.reference, clock),
                                !.transition = "Applied",
                                !.pc = "saveOrder"])
              /\ effects' = [effects EXCEPT !.passedGuard = @ + 1]
              /\ clock' = clock + 1
  /\ UNCHANGED <<internalSecret, before, received, orders, carts, notified, failures>>

FindOrderFails(s) ==
  /\ At(s, "findOrder")
  /\ CanFail
  /\ Finish(s, Traced(inflight[s], "Order.findOne", FALSE), Internal500)
  /\ failures' = failures + 1
  /\ UNCHANGED <<internalSecret, before, received, orders, carts, notified, effects, clock>>

\* Line 82: the document the request holds is written to the store.  The
\* write is all or nothing; a write that rests on a stale read is not
\* detected, so the later write wins.
\* SaveOrder with a defect: the save is not awaited, and the request goes on
\* to its side effects before anything is written.
SaveOrderUnawaited(s) ==
  /\ At(s, "saveOrder")
  /\ Continue(s, [inflight[s] EXCEPT !.pc = "notify"])
  /\ UNCHANGED <<internalSecret, before, received, orders, carts, notified,
                 effects, clock, failures>>

SaveOrder(s) ==
  /\ At(s, "saveOrder")
  /\ orders' = [orders EXCEPT ![inflight[s].order.orderId] = inflight[s].order]
  /\ effects' = [effects EXCEPT !.orderSaves = @ + 1]
  /\ Continue(s, [Traced(inflight[s], "order.save", TRUE) EXCEPT !.pc = "notify"])
  /\ UNCHANGED <<internalSecret, before, received, carts, notified, clock, failures>>

\* SaveOrderFails with a defect: the error is caught next to the save and
\* the request goes on to its side effects.
SaveOrderFailsSwallowed(s) ==
  /\ At(s, "saveOrder")
  /\ CanFail
  /\ Continue(s, [Traced(inflight[s], "order.save", FALSE) EXCEPT !.pc = "notify"])
  /\ failures' = failures + 1
  /\ UNCHANGED <<internalSecret, before, received, orders, carts, notified, effects, clock>>

SaveOrderFails(s) ==
  /\ At(s, "saveOrder")
  /\ CanFail
  /\ Finish(s, Traced(inflight[s], "order.save", FALSE), Internal500)
  /\ failures' = failures + 1
  /\ UNCHANGED <<internalSecret, before, received, orders, carts, notified, effects, clock>>

\* Lines 85-90: the notification to the user of the order.
Notify(s) ==
  /\ At(s, "notify")
  /\ notified' = [notified EXCEPT ![inflight[s].order.user] = @ + 1]
  /\ Continue(s, [Traced(inflight[s], "sendNotificationToUser", TRUE)
                    EXCEPT !.pc = "findCart"])
  /\ UNCHANGED <<internalSecret, before, received, orders, carts, effects, clock, failures>>

\* NotifyFails with a defect: without the inner try the outer catch answers
\* 500.
NotifyFailsPropagates(s) ==
  /\ At(s, "notify")
  /\ CanFail
  /\ Finish(s, Traced(inflight[s], "sendNotificationToUser", FALSE), Internal500)
  /\ failures' = failures + 1
  /\ UNCHANGED <<internalSecret, before, received, orders, carts, notified, effects, clock>>

\* Lines 91-93: the inner catch logs the error and the request goes on.
NotifyFails(s) ==
  /\ At(s, "notify")
  /\ CanFail
  /\ Continue(s, [Traced(inflight[s], "sendNotificationToUser", FALSE)
                    EXCEPT !.pc = "findCart"])
  /\ failures' = failures + 1
  /\ UNCHANGED <<internalSecret, before, received, orders, carts, notified, effects, clock>>

\* Lines 98-100: the cart of the order's user is read and emptied in memory.
FindCart(s) ==
  /\ At(s, "findCart")
  /\ LET request  == Traced(inflight[s], "Cart.findOne", TRUE)
         userCart == FindOneCart(request.order.user)
     IN  IF userCart = NoCart
         THEN Finish(s, request, Ok200)
         ELSE Continue(s, [request EXCEPT !.userCart = ClearCart(userCart),
                                          !.pc = "saveCart"])
  /\ UNCHANGED <<internalSecret, before, received, orders, carts, notified, effects, clock, failures>>

FindCartFails(s) ==
  /\ At(s, "findCart")
  /\ CanFail
  /\ Finish(s, Traced(inflight[s], "Cart.findOne", FALSE), Internal500)
  /\ failures' = failures + 1
  /\ UNCHANGED <<internalSecret, before, received, orders, carts, notified, effects, clock>>

\* Lines 101-115: the emptied cart is written and the request answers 200.
SaveCart(s) ==
  /\ At(s, "saveCart")
  /\ carts' = [carts EXCEPT ![inflight[s].userCart.user] = inflight[s].userCart]
  /\ effects' = [effects EXCEPT !.cartSaves = @ + 1]
  /\ Finish(s, Traced(inflight[s], "userCart.save", TRUE), Ok200)
  /\ UNCHANGED <<internalSecret, before, received, orders, notified, clock, failures>>

SaveCartFails(s) ==
  /\ At(s, "saveCart")
  /\ CanFail
  /\ Finish(s, Traced(inflight[s], "userCart.save", FALSE), Internal500)
  /\ failures' = failures + 1
  /\ UNCHANGED <<internalSecret, before, received, orders, carts, notified, effects, clock>>

Step(s) ==
  \/ FindOrder(s) \/ FindOrderFails(s)
  \/ SaveOrder(s) \/ SaveOrderFails(s)
  \/ Notify(s) \/ NotifyFails(s)
  \/ FindCart(s) \/ FindCartFails(s)
  \/ SaveCart(s) \/ SaveCartFails(s)

\* Requests of any number of invocations interleave at their awaits.
Next ==
  \E s \in Slots :
    \/ Receive(s, RelayDeliveries)
    \/ ConnectFails(s, RelayDeliveries)
    \/ Step(s)

Spec == Init /\ [][Next]_vars

\* One request at a time: a request is received only when none is in flight.
Quiet == \A s \in Slots : Idle(s)

NextSeq ==
  \E s \in Slots :
    \/ Quiet /\ Receive(s, Deliveries)
    \/ Quiet /\ ConnectFails(s, Deliveries)
    \/ Step(s)

SpecSeq == InitAny /\ [][NextSeq]_vars

\* The relay's event: the payment of the stored order, correctly signed.
RelayEvent == Signed(Paid("TXN1", StoredOrderId))

\* The orders the relay's event can still pay.
UnpaidOrders == {order \in InitOrders : order.payment.status # "Completed"}

InitRelay == InitWith(UnpaidOrders)

\* The relay delivers its event once, and again after every 500 until it is
\* answered otherwise; it waits for each answer before it sends again.
RedeliveryDue ==
  /\ Quiet
  /\ IF last = NoRequest THEN received = 0 ELSE last.resp.status = 500

Redeliver(s) == RedeliveryDue /\ Receive(s, {RelayEvent})

RedeliverConnectFails(s) == RedeliveryDue /\ ConnectFails(s, {RelayEvent})

NextRelay ==
  \E s \in Slots :
    \/ Redeliver(s)
    \/ RedeliverConnectFails(s)
    \/ Step(s)

\* The handler always finishes the request it has, the relay always sends
\* the delivery that is due, and only MaxFailures calls throw.
SpecRelay == InitRelay /\ [][NextRelay]_vars /\ WF_vars(NextRelay)

\* ----------------------------------------------- vocabulary of the claims
Ended200(q) == q.resp = Ok200
HasEnded == last # NoRequest

\* The requests there are: those in flight and the one that just ended.
Requests ==
  {inflight[s] : s \in {t \in Slots : ~Idle(t)}} \cup ({last} \ {NoRequest})

CorrectlySigned(q) ==
  internalSecret # "" /\ q.signature = HmacSha256(internalSecret, q.body)

\* A charge.success event whose nested status is 'success'.
Relevant(body) ==
  body.valid /\ body.event = "charge.success" /\ body.hasData /\ body.status = "success"

CallsOf(q, name) == {i \in 1..Len(q.trace) : q.trace[i].call = name}
Called(q, name) == CallsOf(q, name) # {}
Succeeded(q, name) == \E i \in CallsOf(q, name) : q.trace[i].ok
Failed(q, name) == \E i \in CallsOf(q, name) : ~q.trace[i].ok
FailedCalls(q) == {i \in 1..Len(q.trace) : ~q.trace[i].ok}

StoreCalls == {"Order.findOne", "order.save", "Cart.findOne", "userCart.save"}
SideEffectCalls == {"sendNotificationToUser", "Cart.findOne", "userCart.save"}
TouchedStore(q) == \E name \in StoreCalls : Called(q, name)

\* Nothing is stored or sent that was not when the last request was received.
NothingChanged ==
  orders = before.orders /\ carts = before.carts /\ notified = before.notified

StoredOrder == orders[StoredOrderId]
EntriesWith(timeline, field, value) ==
  {i \in 1..Len(timeline) : timeline[i][field] = value}

\* ----------------------------------------------------------------- claims

\* C1: sequential idempotency.  When requests are handled one after the
\* other and a correctly signed charge.success/success event that has already
\* been answered 200 is delivered again, the second handling leaves the
\* stored order as it found it (no further 'Processing' entry, transactionId
\* unchanged), saves neither the order nor a cart, and sends no notification.
C1_SequentialIdempotency ==
  (HasEnded /\ last.redelivery /\ CorrectlySigned(last)) =>
    /\ NothingChanged
    /\ ~Called(last, "order.save")
    /\ ~Called(last, "userCart.save")
    /\ ~Called(last, "sendNotificationToUser")

\* C1 witness: the event that set the order's transactionId is delivered a
\* second time and answered 200 on the guard, with the cart already cleared.
C1_Witness ==
  /\ HasEnded /\ last.redelivery /\ CorrectlySigned(last) /\ Ended200(last)
  /\ last.transition = "AlreadyApplied"
  /\ StoredOrder.payment.transactionId = last.body.reference
  /\ Cardinality(EntriesWith(StoredOrder.timeline, "title", "Processing")) = 1
  /\ carts["U1"] = Cart("U1", <<>>)

\* C2: concurrent deliveries.  Under any interleaving of requests for the same
\* order, the order is written by at most one of them, its timeline holds at
\* most one 'Processing' entry, and the notification and the clearing of the
\* cart happen at most once.
C2_AtMostOneApplication ==
  /\ effects.orderSaves <= 1
  /\ Cardinality(EntriesWith(StoredOrder.timeline, "title", "Processing")) <= 1
  /\ notified["U1"] <= 1
  /\ effects.cartSaves <= 1

\* C3: signature enforcement.  With the secret configured, a request whose
\* signature header is absent or is not the HMAC of its body under the secret
\* is answered 403 whatever its body, calls no collaborator, and leaves the
\* orders, the carts and the notifications as they were.
C3_SignatureEnforcement ==
  (/\ HasEnded
   /\ internalSecret # ""
   /\ last.signature # HmacSha256(internalSecret, last.body)) =>
    /\ last.resp = Forbidden403
    /\ last.trace = <<>>
    /\ NothingChanged

\* C3 witness: a payment event for the unpaid stored order, signed with
\* another key, has been answered 403.
C3_Witness ==
  /\ HasEnded
  /\ internalSecret = Secret
  /\ last.body = Paid("TXN1", StoredOrderId)
  /\ last.signature = HmacSha256(WrongSecret, last.body)
  /\ last.resp.status = 403
  /\ StoredOrder.payment.status = "Pending"

\* C4: missing-id rejection.  A correctly signed charge.success/success event
\* whose metadata.orderId is empty or absent is answered 400 when no
\* collaborator call fails, and the Order Store is not consulted.
C4_MissingIdRejected ==
  (/\ HasEnded /\ CorrectlySigned(last) /\ Relevant(last.body)
   /\ (~last.body.hasMetadata \/ last.body.orderId \in {Undefined, ""})
   /\ FailedCalls(last) = {}) =>
    /\ last.resp = MissingId400
    /\ ~TouchedStore(last)
    /\ NothingChanged

\* C5: irrelevant events.  A correctly signed event whose kind is not
\* 'charge.success', or whose data carries a status other than 'success', is
\* answered 200 {status:'ok'}, calls no collaborator and changes nothing.
C5_IrrelevantEventNoOp ==
  (/\ HasEnded /\ CorrectlySigned(last) /\ last.body.valid
   /\ \/ last.body.event # "charge.success"
      \/ last.body.hasData /\ last.body.status # "success") =>
    /\ last.resp = Ok200
    /\ last.trace = <<>>
    /\ NothingChanged

\* C5 witness: an event of another kind that carries the data of a successful
\* payment of the unpaid stored order has been answered 200.
C5_Witness ==
  /\ HasEnded /\ CorrectlySigned(last)
  /\ last.body = OtherKindFull
  /\ Ended200(last)
  /\ StoredOrder.payment.status = "Pending"

\* C6: timeline invariant.  After the first application of a payment to an
\* order, whatever its prior timeline, exactly one entry has status 'current',
\* it is the appended 'Processing' entry, and every prior entry titled 'Order
\* Confirmed' has status 'completed'.
C6_TimelineInvariant ==
  (/\ HasEnded /\ last.transition = "Applied" /\ Ended200(last)
   /\ effects.orderSaves = 1) =>
    LET timeline == StoredOrder.timeline
        n == Len(timeline)
    IN  /\ EntriesWith(timeline, "status", "current") = {n}
        /\ timeline[n].title = "Processing"
        /\ \A i \in 1..(n - 1) :
             timeline[i].title = "Order Confirmed" => timeline[i].status = "completed"

\* C7: side effects only on a new application.  A request whose lookup finds
\* the order with payment.status 'Completed' is answered 200 {status:'ok'}
\* after that lookup and calls nothing else; a request that calls the
\* notification or touches a cart has found the order not Completed and has
\* saved it before.
C7_SideEffectsOnlyWhenApplied ==
  \A q \in Requests :
    /\ (q.found # NoDocument /\ q.found.payment.status = "Completed") =>
         /\ q.resp = Ok200
         /\ q.trace = <<Call("connectDB", TRUE), Call("Order.findOne", TRUE)>>
    /\ \A name \in SideEffectCalls :
         \A i \in CallsOf(q, name) :
           /\ q.found # NoDocument
           /\ q.found.payment.status # "Completed"
           /\ \E j \in CallsOf(q, "order.save") : j < i /\ q.trace[j].ok

\* C7 witness: while one request that applied the payment is clearing the
\* cart, another one has found the order Completed and has been answered 200.
C7_Witness ==
  /\ HasEnded /\ last.transition = "AlreadyApplied" /\ Ended200(last)
  /\ \E s \in Slots : At(s, "saveCart")

\* C8: monotonic payment status.  Once the stored order has payment.status
\* 'Completed', no step changes that status or replaces its transactionId.
C8_PaymentMonotonic ==
  [][StoredOrder.payment.status = "Completed" =>
       StoredOrder'.payment = StoredOrder.payment]_vars

\* C9: persistence failure.  A request whose order.save throws is answered
\* 500 right there: the save is its last call and its only save, nothing is
\* sent and no cart is read, and the stores are as they were before it.
C9_SaveFailure ==
  (HasEnded /\ Failed(last, "order.save")) =>
    /\ last.resp = Internal500
    /\ Cardinality(CallsOf(last, "order.save")) = 1
    /\ CallsOf(last, "order.save") = {Len(last.trace)}
    /\ \A name \in SideEffectCalls : ~Called(last, name)
    /\ NothingChanged

\* C9 witness: the save of a first application has failed and the stored
\* order is still unpaid.
C9_Witness ==
  /\ HasEnded /\ Failed(last, "order.save")
  /\ last.resp.status = 500
  /\ last.order.payment.status = "Completed"
  /\ StoredOrder.payment.status = "Pending"
  /\ carts["U1"] # NoCart /\ carts["U1"].items # <<>>

\* C10: notification failure is swallowed.  A request whose notification
\* call throws, and no other call of which fails, goes on to look up the
\* cart and is answered 200 {status:'ok'}; the order it saved stays stored
\* (payment Completed, status Processing, 'Processing' entry last).
C10_NotificationFailureSwallowed ==
  /\ \A q \in Requests :
       Failed(q, "sendNotificationToUser") =>
         /\ Succeeded(q, "order.save")
         /\ q.pc \in {"findCart", "saveCart", "done"}
  /\ (/\ HasEnded /\ Failed(last, "sendNotificationToUser")
      /\ Cardinality(FailedCalls(last)) = 1) =>
       /\ last.resp = Ok200
       /\ Called(last, "Cart.findOne")
       /\ StoredOrder = last.order
       /\ StoredOrder.payment.status = "Completed"
       /\ StoredOrder.status = "Processing"
       /\ StoredOrder.timeline[Len(StoredOrder.timeline)].title = "Processing"

\* C10 witness: the notification failed, the request was answered 200, and
\* the cart of the order's user has been emptied.
C10_Witness ==
  /\ HasEnded /\ Failed(last, "sendNotificationToUser") /\ Ended200(last)
  /\ notified["U1"] = 0
  /\ StoredOrder.payment.status = "Completed"
  /\ carts["U1"] = Cart("U1", <<>>)

\* C11: malformed payload.  A correctly signed body that is not JSON, or a
\* charge.success envelope without its data, is answered with a client error
\* (a JSON response with a 4xx status) and changes nothing.
C11_MalformedPayloadRejected ==
  (/\ HasEnded /\ CorrectlySigned(last)
   /\ \/ ~last.body.valid
      \/ last.body.event = "charge.success" /\ ~last.body.hasData) =>
    /\ last.resp.kind = "json"
    /\ last.resp.status \in 400..499
    /\ NothingChanged

\* C12: order not found.  A correctly signed relevant event whose non-empty
\* orderId no stored order has is answered 404 when no collaborator call
\* fails; no order is created or changed, nothing is saved, no notification
\* is sent and no cart is read.
C12_OrderNotFound ==
  (/\ HasEnded /\ CorrectlySigned(last) /\ Relevant(last.body)
   /\ last.body.hasMetadata
   /\ last.body.orderId \notin {Undefined, ""}
   /\ \A id \in DOMAIN orders : orders[id].orderId # last.body.orderId
   /\ FailedCalls(last) = {}) =>
    /\ last.resp = NotFound404
    /\ Succeeded(last, "Order.findOne")
    /\ ~Called(last, "order.save")
    /\ \A name \in SideEffectCalls : ~Called(last, name)
    /\ DOMAIN orders = DOMAIN before.orders
    /\ NothingChanged

\* C12 witness: a payment event for an id that no order has has been answered
\* 404 after the lookup, with an unpaid order and a full cart in the stores.
C12_Witness ==
  /\ HasEnded /\ CorrectlySigned(last)
  /\ last.body = Paid("TXN1", UnknownOrderId)
  /\ last.resp.status = 404
  /\ Succeeded(last, "Order.findOne")
  /\ StoredOrder.payment.status = "Pending"
  /\ carts["U1"] # NoCart

\* C13: one response per request.  Every request ends with a JSON response
\* whose status is one of 200, 400, 403, 404, 500; no error leaves POST.
C13_AlwaysOneJsonResponse ==
  HasEnded =>
    /\ last.resp.kind = "json"
    /\ last.resp.status \in {200, 400, 403, 404, 500}

\* The requests whose order.save has completed.
Saved == {q \in Requests : Succeeded(q, "order.save")}

\* The order as it was stored when the last request was received.
PriorOrder == before.orders[StoredOrderId]

\* The stored order carries the payment of the event with this reference and
\* the delivery status 'Processing'.
PaidWith(order, reference) ==
  /\ order.payment = [status |-> "Completed", transactionId |-> reference]
  /\ order.status = "Processing"

\* The timeline ends with one 'Processing' entry, marked current, after as
\* many entries as the prior timeline had.
ProcessingAppended(prior, timeline) ==
  /\ Len(timeline) = Len(prior) + 1
  /\ timeline[Len(timeline)].title = "Processing"
  /\ timeline[Len(timeline)].description = ProcessingDescription
  /\ timeline[Len(timeline)].status = "current"

\* The request that ended was answered 200 unless a cart call of it threw.
AnsweredOkUnlessCartFailed ==
  (/\ HasEnded /\ last \in Saved
   /\ ~Failed(last, "Cart.findOne") /\ ~Failed(last, "userCart.save")) =>
    last.resp = Ok200

HandlerOrder ==
  <<"connectDB", "Order.findOne", "order.save", "sendNotificationToUser",
    "Cart.findOne", "userCart.save">>

\* C15: in-request ordering.  Under any interleaving of requests, the calls
\* of each request are made in the order lookup, save, notification, cart
\* lookup, cart save; the idempotency decision is taken only after the lookup
\* returned; the save is made only when the decision was to apply; and no
\* notification or cart call starts before the order.save of the same request
\* has completed successfully.
C15_InRequestOrdering ==
  \A q \in Requests :
    /\ Len(q.trace) <= Len(HandlerOrder)
    /\ \A i \in 1..Len(q.trace) : q.trace[i].call = HandlerOrder[i]
    /\ q.transition # "none" => Succeeded(q, "Order.findOne")
    /\ Called(q, "order.save") => q.transition = "Applied"
    /\ \A i \in 1..Len(q.trace) :
         q.trace[i].call \in SideEffectCalls =>
           \E j \in 1..(i - 1) :
             q.trace[j].call = "order.save" /\ q.trace[j].ok

\* C15 witness: while another request is still in flight, a request has
\* ended after all five steps, each made once and in order.
C15_Witness ==
  /\ HasEnded
  /\ \E s \in Slots : ~Idle(s)
  /\ Len(last.trace) = Len(HandlerOrder)
  /\ \A i \in 1..Len(last.trace) : last.trace[i] = Call(HandlerOrder[i], TRUE)

\* C16: timeline append/patch only.  When requests are handled one after
\* the other, a request that saves the order leaves every prior entry in its
\* place with its title, description and timestamp, changes the status of an
\* entry only to 'completed' and only if it is titled 'Order Confirmed', and
\* adds one entry at the end; when no entry is titled 'Order Confirmed' the
\* payment is applied all the same and the prior entries are unchanged.  A
\* request that saves nothing leaves the timeline as it was.
C16_TimelineAppendPatchOnly ==
  LET old == PriorOrder.timeline
      new == StoredOrder.timeline
  IN  /\ Saved = {} => new = old
      /\ \A q \in Saved :
           /\ Len(new) = Len(old) + 1
           /\ \A i \in 1..Len(old) :
                /\ new[i].title = old[i].title
                /\ new[i].description = old[i].description
                /\ new[i].timestamp = old[i].timestamp
                /\ new[i].status # old[i].status =>
                     old[i].title = "Order Confirmed" /\ new[i].status = "completed"
           /\ EntriesWith(old, "title", "Order Confirmed") = {} =>
                /\ SubSeq(new, 1, Len(old)) = old
                /\ StoredOrder.payment.status = "Completed"
                /\ StoredOrder.status = "Processing"

\* C16 witness: an order whose two prior entries are both 'Shipped', the
\* second one current, has been paid and saved.
C16_Witness ==
  /\ HasEnded /\ last \in Saved
  /\ Len(PriorOrder.timeline) = 2
  /\ EntriesWith(PriorOrder.timeline, "title", "Order Confirmed") = {}
  /\ PriorOrder.timeline[2].status = "current"
  /\ Len(StoredOrder.timeline) = 3
  /\ StoredOrder.payment.status = "Completed"

\* C17: cart clearing.  When requests are handled one after the other: no
\* cart is created or deleted; the cart of a user other than the order's is
\* never changed; and a request that saved the order and whose cart calls
\* did not throw is answered 200 with the cart of the order's user, if there
\* was one, still stored and its items empty.
C17_CartClearing ==
  /\ \A u \in Users :
       /\ (carts[u] = NoCart) <=> (before.carts[u] = NoCart)
       /\ u # StoredOrder.user => carts[u] = before.carts[u]
  /\ (/\ HasEnded /\ last \in Saved
      /\ ~Failed(last, "Cart.findOne") /\ ~Failed(last, "userCart.save")) =>
       /\ last.resp = Ok200
       /\ before.carts[StoredOrder.user] # NoCart =>
            carts[StoredOrder.user] = Cart(StoredOrder.user, <<>>)

\* C17 witness: the order has been paid and answered 200, the cart of its
\* user held two items and is now stored empty, and the other user's cart
\* still holds its item.
C17_Witness ==
  /\ HasEnded /\ last \in Saved /\ last.resp = Ok200
  /\ before.carts["U1"] = Cart("U1", <<"shirt", "jeans">>)
  /\ carts["U1"] = Cart("U1", <<>>)
  /\ carts["U2"] = Cart("U2", <<"shoes">>)

\* C18: a response other than 200 means the order was not changed.  When
\* requests are handled one after the other, a request answered 400, 403,
\* 404 or 500 leaves the stored order as it was when the request came in.
C18_NonOkMeansOrderUnchanged ==
  (/\ HasEnded
   /\ last.resp.kind = "json"
   /\ last.resp.status \in {400, 403, 404, 500}) =>
    orders = before.orders

\* C20: 200 means paid.  Under any interleaving of requests, when a
\* correctly signed charge.success/success event carrying the id of a stored
\* order is answered 200, the stored order has payment.status 'Completed' at
\* that moment.
C20_OkMeansPaid ==
  (/\ HasEnded /\ CorrectlySigned(last) /\ Relevant(last.body)
   /\ last.body.hasMetadata
   /\ last.body.orderId \in DOMAIN orders
   /\ Ended200(last)) =>
    orders[last.body.orderId].payment.status = "Completed"

\* C20 witness: a payment event for an order whose payment had failed is
\* answered 200 while another request for the order is still in flight.
C20_Witness ==
  /\ HasEnded /\ CorrectlySigned(last) /\ Relevant(last.body)
  /\ last.body.orderId = StoredOrderId
  /\ Ended200(last)
  /\ last.found.payment.status = "Failed"
  /\ \E s \in Slots : ~Idle(s) /\ inflight[s].body.orderId = StoredOrderId
  /\ StoredOrder.payment.status = "Completed"

\* C19: convergence under redelivery.  When the relay redelivers the payment
\* event of an unpaid order after every 500 and failures are finitely many,
\* the relay is in the end answered 200, and from then on, when it sends
\* nothing more, the order is Completed and the cart of the order's user, if
\* there is one, has been emptied.
C19_ConvergedWhenAcknowledged ==
  (HasEnded /\ Ended200(last)) =>
    /\ StoredOrder.payment.status = "Completed"
    /\ carts[StoredOrder.user] # NoCart =>
         carts[StoredOrder.user].items = <<>>
====
